---- MODULE Spec2Model ----
(***************************************************************************)
(* rgf (rust-gh-forks): src/main.rs.  One invocation of the tool parses    *)
(* its repository argument, optionally asks for the rate limit, fetches    *)
(* one page of forks, optionally lists them, and optionally adds each fork *)
(* as a remote of the local repository.  Strings are sequences of          *)
(* one-character strings so that split and replace are computed.           *)
(***************************************************************************)
EXTENDS Integers, Sequences, FiniteSets, TLC

(* ---------------------------------------------------------------- bounds *)
\* longest fork page the hosting API returns in the model (per_page)
MaxForks == 2
\* most remotes the local repository holds before the first run
MaxRemotes == 2

(* --------------------------------------------------------------- strings *)
Slash == "/"
Underscore == "_"

\* str.split('/') : the segments between separators; "" splits to [""]
RECURSIVE SplitFrom(_, _, _)
SplitFrom(s, k, cur) ==
    IF k > Len(s) THEN <<cur>>
    ELSE IF s[k] = Slash THEN <<cur>> \o SplitFrom(s, k + 1, <<>>)
    ELSE SplitFrom(s, k + 1, Append(cur, s[k]))

Split(s) == SplitFrom(s, 1, <<>>)

\* str.replace("/", "_")
Replace(s) == [k \in 1..Len(s) |-> IF s[k] = Slash THEN Underscore ELSE s[k]]

\* OwnerRepo::new
OwnerRepoNew(orinput) ==
    LET parts == Split(orinput)
    IN  IF Len(parts) # 2
        THEN [ok |-> FALSE, owner |-> <<>>, repo |-> <<>>]
        ELSE [ok |-> TRUE, owner |-> parts[1], repo |-> parts[2]]

RemotePrefix == <<"r", "g", "f", "_", "_">>

\* unify_remote_name
unify_remote_name(name) == Replace(RemotePrefix \o name)

(* ---------------------------------------------------------------- inputs *)
\* the repository argument given on the command line
RepoInputs ==
    { <<"o", "/", "r">>,            \* o/r
      <<"o">>,                      \* no separator
      <<"/", "r">>,                 \* empty owner
      <<"o", "/", "r", "/", "x">>,  \* two separators
      <<>> }                        \* empty input

CloneUrl(full_name) == <<"u", ":">> \o full_name

ForkDesc(full_name, n) ==
    [full_name |-> full_name, clone_url |-> CloneUrl(full_name), forks_count |-> n]

\* the forks the hosting provider may return
ForkUniverse ==
    { ForkDesc(<<"p", "/", "r">>, 0),
      ForkDesc(<<"p", "/", "r", "_", "x">>, 2),
      ForkDesc(<<"p", "_", "r", "/", "x">>, 0) }

\* a remote whose name is not valid UTF-8 (StringArray::iter yields None)
NonUtf8 == <<"?">>

Origin == <<"o", "r", "i", "g", "i", "n">>

\* remotes the local repository may hold before the first run
RemoteUniverse ==
    { [name |-> Origin, url |-> <<"u", ":", "o", "/", "r">>],
      [name |-> unify_remote_name(<<"p", "/", "r">>),
       url  |-> CloneUrl(<<"p", "/", "r">>)],
      [name |-> unify_remote_name(<<"p", "/", "r", "_", "x">>),
       url  |-> <<"u", ":", "o", "l", "d">>],
      [name |-> NonUtf8, url |-> <<"u", ":", "z">>] }

\* sequences without repetition of at most n elements of S
InjSeqs(S, n) ==
    UNION { { q \in [1..m -> S] : \A a, b \in 1..m : a # b => q[a] # q[b] } : m \in 0..n }

ArgsSet ==
    [dry_run : BOOLEAN, add : BOOLEAN, list : BOOLEAN, rate_limit : BOOLEAN,
     repository : RepoInputs]

(* ----------------------------------------------------------------- state *)
VARIABLES
    args,            \* Args::parse()
    pc,              \* position in main
    abort,           \* why the run ended early, "none" otherwise
    owner_repo,      \* OwnerRepo::new(&args.repository)
    requests,        \* network requests issued in this run
    forks,           \* the fetched page
    fetched,         \* the fork listing came back with status OK
    i,               \* index of the next fork of the running loop
    remotes,         \* the local repository's remotes (name, url), in order
    remotes0,        \* the remotes as they were when this run started
    current_remotes, \* repo.remotes(), read once before the add loop
    created,         \* repo.remote(..) calls of this run, with their result
    out,             \* lines printed in this run
    run,             \* "first" or "second" invocation
    prev             \* what the first invocation left, once it has ended

vars == <<args, pc, abort, owner_repo, requests, forks, fetched, i, remotes,
          remotes0, current_remotes, created, out, run, prev>>

NoOwnerRepo == [ok |-> FALSE, owner |-> <<>>, repo |-> <<>>]
NoPrev == [ended |-> FALSE, args |-> [dry_run |-> FALSE, add |-> FALSE, list |-> FALSE,
                                      rate_limit |-> FALSE, repository |-> <<>>],
           forks |-> <<>>, out |-> <<>>, abort |-> "none", fetched |-> FALSE]

Init ==
    /\ args \in ArgsSet
    /\ pc = "parse"
    /\ abort = "none"
    /\ owner_repo = NoOwnerRepo
    /\ requests = <<>>
    /\ forks = <<>>
    /\ fetched = FALSE
    /\ i = 1
    /\ remotes \in InjSeqs(RemoteUniverse, MaxRemotes)
    /\ remotes0 = remotes
    /\ current_remotes = <<>>
    /\ created = <<>>
    /\ out = <<>>
    /\ run = "first"
    /\ prev = NoPrev

(* ----------------------------------------------------------- environment *)
\* what a request to the hosting provider may come back with
Responses == {"ok", "bad_status", "transport"}

\* the bodies a successful fork listing may carry
Pages == InjSeqs(ForkUniverse, MaxForks)

(* ------------------------------------------------------------ output lines *)
\* println!("{} | {}", fork.full_name, fork.forks_count)
ReportLine(k, fork) ==
    [kind |-> "Report", idx |-> k, name |-> fork.full_name, count |-> fork.forks_count]

\* the lines of the add loop, each tagged with the derived remote name
ActionLine(kind, k, remote_name) ==
    [kind |-> kind, idx |-> k, name |-> remote_name, count |-> 0]

\* the lines that belong to no fork
PlainLine(kind) == [kind |-> kind, idx |-> 0, name |-> <<>>, count |-> 0]

(* ------------------------------------------------------------ control flow *)
\* if args.rate_limit { .. }
AfterClient == IF args.rate_limit THEN "rate_limit" ELSE "list_forks"

\* variant: the add block is never entered
AfterList_NeverAdd == "exited"

\* if args.add { .. }
AfterList == IF args.add THEN "discover" ELSE "exited"

\* if args.list { for fork in &forks { .. } }
AfterFetch(body) == IF args.list /\ Len(body) > 0 THEN "list_loop" ELSE AfterList

\* for fork in forks { .. }
AfterRemotes == IF Len(forks) > 0 THEN "add_loop" ELSE "exited"

\* current_remotes.iter().any(|r| r.unwrap() == remote_name):
\* "true", "false", or "panic" when unwrap meets a name that is not UTF-8
RECURSIVE AnyRemote(_, _, _)
AnyRemote(names, k, remote_name) ==
    IF k > Len(names) THEN "false"
    ELSE IF names[k] = NonUtf8 THEN "panic"
    ELSE IF names[k] = remote_name THEN "true"
    ELSE AnyRemote(names, k + 1, remote_name)

\* git2 Repository::remote(name, url): refuses a name the repository already has
RemoteExists(name) == \E k \in 1..Len(remotes) : remotes[k].name = name

\* variant: a remote that is already present is not skipped
AddDecision_NoSkip(found) ==
    IF found = "panic" THEN "panic"
    ELSE IF args.dry_run THEN "would_add"
    ELSE "create"

\* variant: the dry-run option is not consulted
AddDecision_IgnoreDryRun(found) ==
    IF found = "panic" THEN "panic"
    ELSE IF found = "true" THEN "skip"
    ELSE "create"

\* the add loop's decision for one fork, given the outcome of any()
AddDecision(found) ==
    IF found = "panic" THEN "panic"
    ELSE IF found = "true" THEN "skip"
    ELSE IF args.dry_run THEN "would_add"
    ELSE "create"

\* variant: a failed request is ignored and the run goes on
AfterRequestErr_Continue == AfterList

\* a failed request ends the run: panic!("Response Status not okay") or exit(1)
AfterRequestErr == "exited"

\* variant: the first failed repo.remote(..) ends the loop
AfterCreateErr_Abort(k) == "exited"

\* what the loop does after repo.remote(..) returned Err(e): print and go on
AfterCreateErr(k) == IF k < Len(forks) THEN "add_loop" ELSE "exited"

(* ----------------------------------------------------------------- actions *)
\* let owner_repo = OwnerRepo::new(&args.repository).expect(..)
Parse ==
    /\ pc = "parse"
    /\ owner_repo' = OwnerRepoNew(args.repository)
    /\ IF owner_repo'.ok
       THEN pc' = "client" /\ abort' = "none"
       ELSE pc' = "exited" /\ abort' = "parse"
    /\ UNCHANGED <<remotes0, args, requests, forks, fetched, i, remotes, current_remotes,
                   created, out, run, prev>>

\* let client = Client::new(..).expect("Failed to create gh client")
NewClient ==
    /\ pc = "client"
    /\ \E ok \in BOOLEAN :
          IF ok
          THEN pc' = AfterClient /\ abort' = "none"
          ELSE pc' = "exited" /\ abort' = "client"
    /\ UNCHANGED <<remotes0, args, owner_repo, requests, forks, fetched, i, remotes,
                   current_remotes, created, out, run, prev>>

\* client.rate_limit().get().await and the line printed from it
RateLimit ==
    /\ pc = "rate_limit"
    /\ requests' = Append(requests, "rate_limit")
    /\ \E resp \in Responses :
          CASE resp = "ok" ->
                  /\ out' = Append(out, PlainLine("RateLimit"))
                  /\ pc' = "list_forks"
                  /\ abort' = "none"
            [] resp = "bad_status" ->
                  /\ out' = out
                  /\ pc' = AfterRequestErr
                  /\ abort' = "rate_status"
            [] resp = "transport" ->
                  /\ out' = Append(out, PlainLine("Error"))
                  /\ pc' = AfterRequestErr
                  /\ abort' = "rate_transport"
    /\ UNCHANGED <<remotes0, args, owner_repo, forks, fetched, i, remotes, current_remotes,
                   created, run, prev>>

\* client.repos().list_forks(owner, repo, Newest, per_page, page).await
ListForks ==
    /\ pc = "list_forks"
    /\ requests' = Append(requests, "list_forks")
    /\ \E resp \in Responses :
          CASE resp = "ok" ->
                  \E body \in Pages :
                      /\ forks' = body
                      /\ fetched' = TRUE
                      /\ out' = out
                      /\ pc' = AfterFetch(body)
                      /\ abort' = "none"
            [] resp = "bad_status" ->
                  /\ UNCHANGED <<forks, fetched, out>>
                  /\ pc' = AfterRequestErr
                  /\ abort' = "forks_status"
            [] resp = "transport" ->
                  /\ UNCHANGED <<forks, fetched>>
                  /\ out' = Append(out, PlainLine("Error"))
                  /\ pc' = AfterRequestErr
                  /\ abort' = "forks_transport"
    /\ i' = 1
    /\ UNCHANGED <<remotes0, args, owner_repo, remotes, current_remotes, created, run, prev>>

\* one turn of: for fork in &forks { println!("{} | {}", ..) }
ListFork ==
    /\ pc = "list_loop"
    /\ out' = Append(out, ReportLine(i, forks[i]))
    /\ IF i < Len(forks)
       THEN i' = i + 1 /\ pc' = pc
       ELSE i' = 1 /\ pc' = AfterList
    /\ UNCHANGED <<remotes0, args, abort, owner_repo, requests, forks, fetched, remotes,
                   current_remotes, created, run, prev>>

\* git2::Repository::discover(".")
Discover ==
    /\ pc = "discover"
    /\ \E ok \in BOOLEAN :
          IF ok
          THEN pc' = "remotes" /\ abort' = "none"
          ELSE pc' = "exited" /\ abort' = "discover"
    /\ UNCHANGED <<remotes0, args, owner_repo, requests, forks, fetched, i, remotes,
                   current_remotes, created, out, run, prev>>

\* let current_remotes = repo.remotes()
Remotes ==
    /\ pc = "remotes"
    /\ \E ok \in BOOLEAN :
          IF ok
          THEN /\ current_remotes' = [k \in 1..Len(remotes) |-> remotes[k].name]
               /\ pc' = AfterRemotes
               /\ abort' = "none"
          ELSE /\ current_remotes' = current_remotes
               /\ pc' = "exited"
               /\ abort' = "remotes"
    /\ i' = 1
    /\ UNCHANGED <<remotes0, args, owner_repo, requests, forks, fetched, remotes, created,
                   out, run, prev>>

\* one turn of the add loop: for fork in forks { .. }
AddFork ==
    /\ pc = "add_loop"
    /\ LET fork        == forks[i]
           remote_name == unify_remote_name(fork.full_name)
           decision    == AddDecision(AnyRemote(current_remotes, 1, remote_name))
           next        == IF i < Len(forks) THEN "add_loop" ELSE "exited"
       IN  CASE decision = "panic" ->
                  /\ UNCHANGED <<out, remotes, created>>
                  /\ pc' = "exited"
                  /\ abort' = "unwrap"
             [] decision = "skip" ->
                  /\ out' = Append(out, ActionLine("Skip", i, remote_name))
                  /\ UNCHANGED <<remotes, created>>
                  /\ pc' = next
                  /\ abort' = "none"
             [] decision = "would_add" ->
                  /\ out' = Append(out, ActionLine("WouldAdd", i, remote_name))
                  /\ UNCHANGED <<remotes, created>>
                  /\ pc' = next
                  /\ abort' = "none"
             [] decision = "create" ->
                  \E accepted \in BOOLEAN :
                     LET ok == accepted /\ ~RemoteExists(remote_name)
                     IN  /\ created' = Append(created,
                                [idx |-> i, name |-> remote_name,
                                 url |-> fork.clone_url, ok |-> ok])
                         /\ IF ok
                            THEN /\ remotes' = Append(remotes,
                                        [name |-> remote_name, url |-> fork.clone_url])
                                 /\ out' = Append(out, ActionLine("Added", i, remote_name))
                                 /\ pc' = next
                            ELSE /\ remotes' = remotes
                                 /\ out' = Append(out, ActionLine("AddFailed", i, remote_name))
                                 /\ pc' = AfterCreateErr(i)
                         /\ abort' = "none"
    /\ i' = IF i < Len(forks) THEN i + 1 ELSE i
    /\ UNCHANGED <<remotes0, args, owner_repo, requests, forks, fetched, current_remotes,
                   run, prev>>

\* the same command line is run once more in the same local repository
Rerun ==
    /\ pc = "exited"
    /\ run = "first"
    /\ run' = "second"
    /\ prev' = [ended |-> TRUE, args |-> args, forks |-> forks, out |-> out,
                abort |-> abort, fetched |-> fetched]
    /\ pc' = "parse"
    /\ abort' = "none"
    /\ owner_repo' = NoOwnerRepo
    /\ requests' = <<>>
    /\ forks' = <<>>
    /\ fetched' = FALSE
    /\ i' = 1
    /\ current_remotes' = <<>>
    /\ created' = <<>>
    /\ out' = <<>>
    /\ remotes0' = remotes
    /\ UNCHANGED <<args, remotes>>

Next ==
    \/ Parse
    \/ NewClient
    \/ RateLimit
    \/ ListForks
    \/ ListFork
    \/ Discover
    \/ Remotes
    \/ AddFork
    \/ Rerun

Spec == Init /\ [][Next]_vars

(* ------------------------------------------------------------- properties *)
Ended == pc = "exited"

\* the run reached the end of main
Completed == Ended /\ abort = "none"

\* add selected, dry-run not selected
Apply(a) == a.add /\ ~a.dry_run

\* a line of kind `kind` was printed for the k-th fork
Has(o, kind, k) == \E n \in 1..Len(o) : o[n].kind = kind /\ o[n].idx = k

\* the lines printed for the k-th fork
LinesOf(o, k) == { n \in 1..Len(o) : o[n].idx = k }

AddKinds == {"Skip", "WouldAdd", "Added", "AddFailed"}

HasAddOutcome(o, k) == \E n \in LinesOf(o, k) : o[n].kind \in AddKinds

InStore(store, name) == \E n \in 1..Len(store) : store[n].name = name

SecondRunSamePage ==
    /\ run = "second"
    /\ Completed
    /\ prev.abort = "none"
    /\ Apply(args)
    /\ fetched /\ prev.fetched
    /\ forks = prev.forks

\* C1 as stated: a second Apply run over the same fork list, against the
\* remotes the first run left, prints no Added line and skips every fork.
C1_SecondRunAllSkipped ==
    SecondRunSamePage =>
        /\ \A k \in 1..Len(forks) : Has(out, "Skip", k)
        /\ \A n \in 1..Len(out) : out[n].kind # "Added"

\* C1 amended: when both Apply runs over the same fork list complete, every
\* fork the first run added or skipped is skipped (and neither added nor
\* failed) by the second, and the second run adds only forks whose
\* create-remote failed in the first.
C1_SecondRunSkipsWhatFirstSettled ==
    SecondRunSamePage =>
        /\ \A k \in 1..Len(forks) :
              (Has(prev.out, "Added", k) \/ Has(prev.out, "Skip", k)) =>
                  /\ Has(out, "Skip", k)
                  /\ ~Has(out, "Added", k)
                  /\ ~Has(out, "AddFailed", k)
        /\ \A k \in 1..Len(forks) :
              Has(out, "Added", k) => Has(prev.out, "AddFailed", k)

C1_Witness ==
    /\ SecondRunSamePage
    /\ \E k \in 1..Len(forks) : Has(prev.out, "Added", k) /\ Has(out, "Skip", k)
    /\ \E k \in 1..Len(forks) : Has(prev.out, "AddFailed", k) /\ Has(out, "Added", k)

\* C2 as stated: with the list option selected, whatever add and dry-run are,
\* forks are only reported and repo.remote(..) is never called.
C2_ListNeverCreates ==
    args.list =>
        /\ created = <<>>
        /\ \A n \in 1..Len(out) : out[n].idx > 0 => out[n].kind = "Report"

\* C3 as stated: no fork of the page receives more than one outcome.
C3_SingleOutcomePerFork ==
    \A k \in 1..Len(forks) : Cardinality(LinesOf(out, k)) <= 1

C5_DeriverInjective ==
    \A a, b \in 1..Len(forks) :
        forks[a].full_name # forks[b].full_name =>
            unify_remote_name(forks[a].full_name) # unify_remote_name(forks[b].full_name)

\* the acceptance rule of C6: exactly two segments, both non-empty
TwoNonEmptySegments(input) ==
    LET parts == Split(input)
    IN  Len(parts) = 2 /\ parts[1] # <<>> /\ parts[2] # <<>>

\* C6 as stated: OwnerRepo::new succeeds exactly for inputs that split on '/'
\* into two non-empty segments, and then returns them as owner and repo.
C6_ParserAcceptance ==
    pc # "parse" =>
        /\ owner_repo.ok <=> TwoNonEmptySegments(args.repository)
        /\ owner_repo.ok =>
              /\ owner_repo.owner = Split(args.repository)[1]
              /\ owner_repo.repo = Split(args.repository)[2]

RequestAborts == {"rate_status", "rate_transport", "forks_status", "forks_transport"}

\* C7: a repository argument that does not parse ends the run before any
\* request; a failed rate-limit or fork-listing request ends the run with no
\* fork line printed and no repo.remote(..) call; fork lines and
\* repo.remote(..) calls occur only after the page was fetched.
C7_FatalErrorsPrecedeReconciliation ==
    /\ abort = "parse" => (Ended /\ requests = <<>>)
    /\ abort \in RequestAborts =>
          /\ Ended
          /\ created = <<>>
          /\ \A n \in 1..Len(out) : out[n].idx = 0
    /\ ~fetched =>
          /\ created = <<>>
          /\ \A n \in 1..Len(out) : out[n].idx = 0
          /\ pc \notin {"list_loop", "discover", "remotes", "add_loop"}

C7_Witness ==
    /\ abort = "forks_status"
    /\ args.list /\ Apply(args) /\ args.rate_limit
    /\ Len(requests) > 1

\* C8: in Apply mode a failed repo.remote(..) prints the add-failed line for
\* that fork and does not end the run: the loop goes on and every later fork
\* gets its own skip, added or add-failed line.
C8_CreateFailureIsPerFork ==
    \A n \in 1..Len(created) :
        ~created[n].ok =>
            /\ Apply(args)
            /\ Has(out, "AddFailed", created[n].idx)
            /\ abort = "none"
            /\ \A k \in (created[n].idx + 1)..Len(forks) :
                  \/ pc = "add_loop" /\ i <= k
                  \/ Has(out, "Skip", k) \/ Has(out, "Added", k) \/ Has(out, "AddFailed", k)

C8_Witness ==
    /\ Completed
    /\ Len(forks) = MaxForks
    /\ \E n \in 1..Len(created) : ~created[n].ok /\ created[n].idx = 1
    /\ Has(out, "Added", Len(forks))

\* C9 as stated: the lines and repo.remote(..) calls of an earlier fork all
\* come before those of a later fork.
C9_OrderPreserved ==
    /\ \A m, n \in 1..Len(out) :
          (m < n /\ out[m].idx > 0 /\ out[n].idx > 0) => out[m].idx <= out[n].idx
    /\ \A m, n \in 1..Len(created) : m < n => created[m].idx <= created[n].idx

\* what C10 expects of the k-th fork: skipped when its derived name was a
\* remote at the start of the run, reported as would-add otherwise
DryRunOutcome(k) ==
    IF InStore(remotes0, unify_remote_name(forks[k].full_name))
    THEN Has(out, "Skip", k) /\ ~Has(out, "WouldAdd", k)
    ELSE Has(out, "WouldAdd", k) /\ ~Has(out, "Skip", k)

====
